---- MODULE Spec2Model ----
(***************************************************************************)
(* Model of the Sentry bundler plugins' release lifecycle steps            *)
(* (createNewRelease .. addDeploy) and of the esbuild plugin hooks         *)
(* (release injection, debug-id injection, debug-id upload).               *)
(*                                                                         *)
(* Two specifications share the module:                                    *)
(*   SpecRelease  one run of the release pipeline over every option set    *)
(*   SpecBuild    one esbuild build (scan, link, build end) with the       *)
(*                plugins' callbacks driven by the host                    *)
(***************************************************************************)
EXTENDS Integers, Sequences, FiniteSets, TLC

VARIABLES
  \* ---- release pipeline ----
  options,       \* NormalizedOptions: the step configuration, immutable in a run
  telemetry,     \* whether addSpanToTransaction returns a span (else undefined)
  stepState,     \* per step function: "pending" | "awaiting" | "returned" | "threw"
  cliCalls,      \* ctx.cli.releases.* calls issued, in order
  callResults,   \* how each issued call settled so far: "ok" | "failed"
  cliFailure,    \* the error value the service rejected with ("none" if none)
  thrown,        \* the error the caller of the step observes ("none" if none)
  spansStarted,  \* span ops started by addSpanToTransaction, in order
  spansFinished, \* span ops finished by span.finish(), in order
  breadcrumbs,   \* ctx.hub.addBreadcrumb messages, in order
  exceptions,    \* ctx.hub.captureException messages, in order
  logs,          \* ctx.logger lines <<level, message>>, in order
  events,        \* span starts and finishes, calls and their settling, breadcrumbs
                 \* and reported exceptions, in the order the statements ran
  \* ---- esbuild build ----
  initialOptions,  \* the build options the plugins' setup reads and edits
  phase,           \* "init" | "scan" | "built": position of the host's build
  roots,           \* resolutions of entry points and inject paths: [request, id]
  known,           \* modules the host has resolved: [id, pluginData]
  loaded,          \* modules the host has loaded: [id, imports, debugId]
  edges,           \* resolved imports: [from, path, to]
  stubResolutions, \* what each resolution of the stub path returned, in order
  uuids,           \* the values uuidv4() has returned so far
  result,          \* the BuildResult handed to onEnd: [errors, outputs, metafile]
  uploadCalls,     \* arguments of each call of the upload callback, in order
  uploadState,     \* the upload promise: "idle" | "pending" | "resolved" | "rejected"
  onEndState,      \* the onEnd promise: "idle" | "awaiting" | "resolved" | "rejected"
  onEndError       \* what the onEnd promise rejected with ("none" if nothing)

releaseVars == <<options, telemetry, stepState, cliCalls, callResults, cliFailure,
                 thrown, spansStarted, spansFinished, breadcrumbs, exceptions, logs,
                 events>>

buildVars == <<initialOptions, phase, roots, known, loaded, edges, stubResolutions,
               uuids, result, uploadCalls, uploadState, onEndState, onEndError>>

vars == <<releaseVars, buildVars>>

(***************************************************************************)
(* Release pipeline: the six step functions                                *)
(***************************************************************************)

\* The order in which the caller awaits the step functions.
StepOrder == <<"create", "clean", "upload", "setCommits", "finalize", "deploy">>

Steps == {StepOrder[i] : i \in 1..Len(StepOrder)}

StepIndex(s) == CHOOSE i \in 1..Len(StepOrder) : StepOrder[i] = s

\* Errors the release-tracking service can reject a call with.
CliErrors == {"ENETWORK", "EAUTH"}

\* Option values: booleans for the flags, an object or undefined for the rest.
OptionSets ==
  [cleanArtifacts : BOOLEAN, uploadSourceMaps : BOOLEAN,
   setCommits : {"undefined", "object"}, finalize : BOOLEAN,
   deploy : {"undefined", "object"}]

\* JavaScript's !v for a boolean option.
NotFlag(v) == v = FALSE

\* JavaScript's !v for an option that is an object or undefined.
NotObject(v) == v = "undefined"

\* Variant of Skipped: cleanArtifacts tests its option the wrong way round.
SkippedInverted(s) ==
  CASE s = "create" -> FALSE
    [] s = "clean" -> ~NotFlag(options.cleanArtifacts)
    [] s = "upload" -> NotFlag(options.uploadSourceMaps)
    [] s = "setCommits" -> NotObject(options.setCommits)
    [] s = "finalize" -> NotFlag(options.finalize)
    [] s = "deploy" -> NotObject(options.deploy)

\* The early-return guard of each step function.
Skipped(s) ==
  CASE s = "create" -> FALSE
    [] s = "clean" -> NotFlag(options.cleanArtifacts)
    [] s = "upload" -> NotFlag(options.uploadSourceMaps)
    [] s = "setCommits" -> NotObject(options.setCommits)
    [] s = "finalize" -> NotFlag(options.finalize)
    [] s = "deploy" -> NotObject(options.deploy)

\* The op of the span each step starts.
SpanOp(s) ==
  CASE s = "create" -> "function.plugin.create_release"
    [] s = "clean" -> "function.plugin.clean_artifacts"
    [] s = "upload" -> "function.plugin.upload_sourcemaps"
    [] s = "setCommits" -> "function.plugin.set_commits"
    [] s = "finalize" -> "function.plugin.finalize_release"
    [] s = "deploy" -> "function.plugin.deploy"

\* The ctx.cli.releases method each step awaits.
CliCall(s) ==
  CASE s = "create" -> "releases.new"
    [] s = "clean" -> "releases.execute(files delete --all)"
    [] s = "upload" -> "releases.uploadSourceMaps"
    [] s = "setCommits" -> "releases.setCommits"
    [] s = "finalize" -> "releases.finalize"
    [] s = "deploy" -> "releases.newDeploy"

\* Variant of FailureMessage: createNewRelease reports cleanArtifacts' message.
FailureMessageCopied(s) ==
  CASE s = "create" -> "CLI Error: Deleting release files failed"
    [] s = "clean" -> "CLI Error: Deleting release files failed"
    [] s = "upload" -> "CLI Error: Uploading source maps failed"
    [] s = "setCommits" -> "CLI Error: Setting commits failed"
    [] s = "finalize" -> "CLI Error: Finalizing release failed"
    [] s = "deploy" -> "CLI Error: Adding deploy info failed"

\* The message of the new Error each catch block reports.
FailureMessage(s) ==
  CASE s = "create" -> "CLI Error: Creating new release failed"
    [] s = "clean" -> "CLI Error: Deleting release files failed"
    [] s = "upload" -> "CLI Error: Uploading source maps failed"
    [] s = "setCommits" -> "CLI Error: Setting commits failed"
    [] s = "finalize" -> "CLI Error: Finalizing release failed"
    [] s = "deploy" -> "CLI Error: Adding deploy info failed"

\* The message logged (and, but for set commits, left as a breadcrumb) on success.
SuccessMessage(s) ==
  CASE s = "create" -> "Successfully created release."
    [] s = "clean" -> "Successfully cleaned previous artifacts."
    [] s = "upload" -> "Successfully uploaded source maps."
    [] s = "setCommits" -> "Successfully set commits."
    [] s = "finalize" -> "Successfully finalized release."
    [] s = "deploy" -> "Successfully added deploy."

\* Variant of SuccessBreadcrumbs: setCommits leaves a breadcrumb like the others.
SuccessBreadcrumbsAll(s) == <<SuccessMessage(s)>>

\* The breadcrumbs a step leaves after its call succeeded.
SuccessBreadcrumbs(s) ==
  IF s = "setCommits" THEN <<>> ELSE <<SuccessMessage(s)>>

\* The message a skipped step logs at debug level.
SkipMessage(s) ==
  CASE s = "clean" -> "Skipping artifact cleanup."
    [] s = "upload" -> "Skipping source maps upload."
    [] s = "setCommits" -> "Skipping setting commits to release."
    [] s = "finalize" -> "Skipping release finalization."
    [] s = "deploy" -> "Skipping adding deploy info to release."
    [] OTHER -> "unreachable"

\* Variant of SkipBreadcrumbs: addDeploy leaves no breadcrumb when skipped.
SkipBreadcrumbsFinalizeOnly(s) ==
  IF s = "finalize" THEN <<SkipMessage(s)>> ELSE <<>>

\* The breadcrumbs a skipped step leaves: finalize and deploy only.
SkipBreadcrumbs(s) ==
  IF s \in {"finalize", "deploy"} THEN <<SkipMessage(s)>> ELSE <<>>

\* Lines a step logs between starting its span and its call.
PreCallLogs(s) ==
  IF s = "upload" THEN <<(<<"info", "Uploading Sourcemaps.">>)>> ELSE <<>>

\* ./telemetry addSpanToTransaction: a span, or undefined when telemetry is off.
addSpanToTransaction(s) ==
  IF telemetry THEN Append(spansStarted, SpanOp(s)) ELSE spansStarted

\* span?.finish() of the finally block.
spanFinish(s) ==
  IF telemetry THEN Append(spansFinished, SpanOp(s)) ELSE spansFinished

\* Variant of finallyFinish: span.finish() follows the try statement, so a
\* throw skips it.
finishAfterTry(s) == spansFinished

\* finally { span?.finish(); } on the way out of a catch block that throws.
finallyFinish(s) == spanFinish(s)

\* Variant of captureException: the catch block reports nothing.
captureNothing(reported, msg) == reported

\* ctx.hub.captureException(new Error(msg)).
captureException(reported, msg) == Append(reported, msg)

\* Variant of AwaitCall: the call is started and not awaited, so the step
\* function returns while the call is in flight.
CallNotAwaited == "returned"

\* await ctx.cli.releases...(): the step function while its call is pending.
AwaitCall == "awaiting"

\* Variant of CatchOutcome: the catch block reports and does not re-throw.
CatchSwallows(e, msg) == [state |-> "returned", error |-> "none"]

\* Variant of CatchOutcome: the catch block throws the Error it reported.
CatchThrowsReported(e, msg) == [state |-> "threw", error |-> msg]

\* catch (e) { captureException(new Error(msg)); throw e; }: what the step
\* function's promise settles to.
CatchOutcome(e, msg) == [state |-> "threw", error |-> e]

Event(kind, step) == [kind |-> kind, step |-> step]

\* The statements of a step from its span's start to its awaited call.
StartEvents(s) ==
  (IF telemetry THEN <<Event("span.start", s)>> ELSE <<>>) \o <<Event("call", s)>>

\* The statements after the awaited call resolved: finally, then the
\* breadcrumb.
OkEvents(s) ==
  <<Event("call.ok", s)>>
    \o (IF telemetry THEN <<Event("span.finish", s)>> ELSE <<>>)
    \o [i \in 1..Len(SuccessBreadcrumbs(s)) |-> Event("breadcrumb.success", s)]

\* The statements after the awaited call rejected: catch, then finally.
FailedEvents(s) ==
  <<Event("call.failed", s), Event("captureException", s)>>
    \o (IF telemetry THEN <<Event("span.finish", s)>> ELSE <<>>)

\* The statements of the skip branch.
SkipEvents(s) == [i \in 1..Len(SkipBreadcrumbs(s)) |-> Event("breadcrumb.skip", s)]

\* The caller awaits the step functions in StepOrder and stops at the first
\* one that throws.
Runnable(s) ==
  /\ stepState[s] = "pending"
  /\ \A i \in 1..(StepIndex(s) - 1) : stepState[StepOrder[i]] = "returned"

\* The early return of a step whose option is falsy.
Skip(s) ==
  /\ Runnable(s)
  /\ Skipped(s)
  /\ breadcrumbs' = breadcrumbs \o SkipBreadcrumbs(s)
  /\ logs' = Append(logs, <<"debug", SkipMessage(s)>>)
  /\ events' = events \o SkipEvents(s)
  /\ stepState' = [stepState EXCEPT ![s] = "returned"]
  /\ UNCHANGED <<options, telemetry, cliCalls, callResults, cliFailure, thrown,
                 spansStarted, spansFinished, exceptions, buildVars>>

\* From the span's start to the await of the service call.
StartCall(s) ==
  /\ Runnable(s)
  /\ ~Skipped(s)
  /\ spansStarted' = addSpanToTransaction(s)
  /\ logs' = logs \o PreCallLogs(s)
  /\ cliCalls' = Append(cliCalls, CliCall(s))
  /\ events' = events \o StartEvents(s)
  /\ stepState' = [stepState EXCEPT ![s] = AwaitCall]
  /\ UNCHANGED <<options, telemetry, callResults, cliFailure, thrown,
                 spansFinished, breadcrumbs, exceptions, buildVars>>

\* The awaited call resolved: finally, then the success breadcrumb and log.
SettleOk(s) ==
  /\ stepState[s] = "awaiting"
  /\ callResults' = Append(callResults, "ok")
  /\ spansFinished' = spanFinish(s)
  /\ breadcrumbs' = breadcrumbs \o SuccessBreadcrumbs(s)
  /\ logs' = Append(logs, <<"info", SuccessMessage(s)>>)
  /\ events' = events \o OkEvents(s)
  /\ stepState' = [stepState EXCEPT ![s] = "returned"]
  /\ UNCHANGED <<options, telemetry, cliCalls, cliFailure, thrown,
                 spansStarted, exceptions, buildVars>>

\* The awaited call rejected with e: catch, then finally.
SettleFailed(s, e) ==
  /\ stepState[s] = "awaiting"
  /\ callResults' = Append(callResults, "failed")
  /\ cliFailure' = e
  /\ exceptions' = captureException(exceptions, FailureMessage(s))
  /\ spansFinished' = finallyFinish(s)
  /\ events' = events \o FailedEvents(s)
  /\ LET out == CatchOutcome(e, FailureMessage(s))
     IN /\ stepState' = [stepState EXCEPT ![s] = out.state]
        /\ thrown' = out.error
  /\ UNCHANGED <<options, telemetry, cliCalls, spansStarted, breadcrumbs, logs,
                 buildVars>>

createNewRelease ==
  \/ StartCall("create")
  \/ SettleOk("create")
  \/ \E e \in CliErrors : SettleFailed("create", e)

cleanArtifacts ==
  \/ Skip("clean")
  \/ StartCall("clean")
  \/ SettleOk("clean")
  \/ \E e \in CliErrors : SettleFailed("clean", e)

uploadSourceMaps ==
  \/ Skip("upload")
  \/ StartCall("upload")
  \/ SettleOk("upload")
  \/ \E e \in CliErrors : SettleFailed("upload", e)

setCommits ==
  \/ Skip("setCommits")
  \/ StartCall("setCommits")
  \/ SettleOk("setCommits")
  \/ \E e \in CliErrors : SettleFailed("setCommits", e)

finalizeRelease ==
  \/ Skip("finalize")
  \/ StartCall("finalize")
  \/ SettleOk("finalize")
  \/ \E e \in CliErrors : SettleFailed("finalize", e)

addDeploy ==
  \/ Skip("deploy")
  \/ StartCall("deploy")
  \/ SettleOk("deploy")
  \/ \E e \in CliErrors : SettleFailed("deploy", e)

\* The pipeline before createNewRelease is called.
ReleaseIdle ==
  /\ stepState = [s \in Steps |-> "pending"]
  /\ cliCalls = <<>>
  /\ callResults = <<>>
  /\ cliFailure = "none"
  /\ thrown = "none"
  /\ spansStarted = <<>>
  /\ spansFinished = <<>>
  /\ breadcrumbs = <<>>
  /\ exceptions = <<>>
  /\ logs = <<>>
  /\ events = <<>>

NextRelease ==
  \/ createNewRelease
  \/ cleanArtifacts
  \/ uploadSourceMaps
  \/ setCommits
  \/ finalizeRelease
  \/ addDeploy

(***************************************************************************)
(* esbuild build: the host and the plugins' callbacks                      *)
(*                                                                         *)
(* The host (esbuild) resolves every entry point and every inject path     *)
(* with kind "entry-point", loads each module once per identity            *)
(* (path, namespace, suffix), resolves each import of a loaded module with *)
(* kind "import-statement", links the outputs and calls onEnd.  For every  *)
(* resolution it runs the onResolve callbacks in registration order and    *)
(* takes the first result; an import no callback resolves gets the host's  *)
(* own resolution in namespace "file".  Callbacks run one at a time, in    *)
(* any order the host's scan produces.                                     *)
(***************************************************************************)

\* How many inputs (entry points and inject files of its own) a build
\* declares at most.
MaxBuildInputs == 2

\* The project's source files that may be declared entry points.
EntryCandidates == {"a.js", "b.js", "c.js"}

\* The user's own inject lists.
UserInjects == {<<>>, <<"shim.js">>}

\* The import statements of the project's source files: a.js imports lib.js,
\* and b.js imports a.js (an entry point itself when it is declared one), so
\* the entries a.js and b.js share a.js and lib.js.
SourceImports(path) ==
  CASE path = "a.js" -> <<"lib.js">>
    [] path = "b.js" -> <<"a.js">>
    [] OTHER -> <<>>

\* The directory the host resolves the build's paths in.
WorkDir == "/work"

pluginName == "sentry-esbuild-debug-id-injection-plugin"
releasePluginName == "sentry-esbuild-release-injection-plugin"

\* path.resolve("_sentry-release-injection-stub") in the build's directory.
virtualReleaseInjectionFilePath == "/work/_sentry-release-injection-stub"

\* The code the release-injection plugin is created with.
injectionCode == "injectionCode"
proxyNamespace == "sentry-debug-id-proxy"
stubNamespace == "sentry-debug-id-stub"
fileNamespace == "file"

\* The reserved path the proxy module imports the stub by.
StubPath == "_sentry-debug-id-injection-stub"

NoPluginData == [originalPath |-> "", originalResolveDir |-> ""]
NoSuffix == <<>>

\* A module's identity in the host's module cache.
ModuleId(r) == [path |-> r.path, namespace |-> r.namespace, suffix |-> r.suffix]

\* The importer of a resolution that has none (an entry point, an inject path).
NoModule == [path |-> "", namespace |-> "", suffix |-> NoSuffix]

\* uuidv4(): a random value no earlier call returned. The value is named by
\* the call that drew it (the callback, the module it was called for, and how
\* many values that call site drew before), so equal values mean the same
\* call, whatever order the host runs the callbacks in. issued are the values
\* drawn so far.
uuidv4(site, issued) ==
  [site |-> site, draw |-> Cardinality({u \in issued : u.site = site}) + 1]

\* Variant of ReleaseInject: the path is pushed once for every entry point.
ReleaseInjectPerEntry(inject) ==
  inject \o [i \in 1..Cardinality(initialOptions.entryPoints) |->
               virtualReleaseInjectionFilePath]

\* initialOptions.inject = initialOptions.inject || [];
\* initialOptions.inject.push(virtualReleaseInjectionFilePath)
ReleaseInject(inject) == Append(inject, virtualReleaseInjectionFilePath)

\* Whether a path matches /_sentry-release-injection-stub/.
ReleaseFilterMatches(args) == args.path = virtualReleaseInjectionFilePath

\* onResolve({ filter: /_sentry-release-injection-stub/ }): no namespace and
\* no suffix, so the host's default namespace.
onResolveRelease(args) ==
  <<[pluginName |-> releasePluginName, path |-> args.path, namespace |-> fileNamespace,
     suffix |-> NoSuffix, sideEffects |-> TRUE, pluginData |-> NoPluginData]>>

\* onLoad({ filter: /_sentry-release-injection-stub/ }).
onLoadRelease(args) ==
  [loader |-> "js", pluginName |-> releasePluginName, imports |-> <<>>,
   reexports |-> "", resolveDir |-> "", debugId |-> <<>>, contents |-> injectionCode]

\* Variant of onResolveEntry: the kind of the resolution is not looked at.
onResolveEntryAnyKind(args) ==
  <<[pluginName |-> pluginName, path |-> args.path, namespace |-> proxyNamespace,
     suffix |-> NoSuffix, sideEffects |-> FALSE,
     pluginData |-> [originalPath |-> args.path,
                     originalResolveDir |-> args.resolveDir]]>>

\* onResolve({ filter: /.*/ }): the result, or <<>> for undefined.
onResolveEntry(args) ==
  IF args.kind # "entry-point"
  THEN <<>>
  ELSE <<[pluginName |-> pluginName, path |-> args.path, namespace |-> proxyNamespace,
          suffix |-> NoSuffix, sideEffects |-> FALSE,
          pluginData |-> [originalPath |-> args.path,
                          originalResolveDir |-> args.resolveDir]]>>

\* Variant of onLoadProxy: the proxy source imports the original module first.
onLoadProxyOriginalFirst(args) ==
  [loader |-> "js", pluginName |-> pluginName,
   imports |-> <<args.pluginData.originalPath, StubPath>>,
   reexports |-> args.pluginData.originalPath,
   resolveDir |-> args.pluginData.originalResolveDir,
   debugId |-> <<>>, contents |-> "proxy"]

\* onLoad({ filter: /.*/, namespace: proxyNamespace }): the imports of the
\* generated proxy source, in source order.
onLoadProxy(args) ==
  [loader |-> "js", pluginName |-> pluginName,
   imports |-> <<StubPath, args.pluginData.originalPath>>,
   reexports |-> args.pluginData.originalPath,
   resolveDir |-> args.pluginData.originalResolveDir,
   debugId |-> <<>>, contents |-> "proxy"]

\* Variant of onResolveStub: the uniqueness token is drawn once, at setup.
onResolveStubShared(args, issued) ==
  <<[pluginName |-> pluginName, path |-> args.path, namespace |-> stubNamespace,
     suffix |-> <<"?sentry-module-id=",
                  uuidv4([hook |-> "setup", module |-> NoModule], {})>>,
     sideEffects |-> TRUE, pluginData |-> NoPluginData]>>

\* onResolve({ filter: /_sentry-debug-id-injection-stub/ }).
onResolveStub(args, issued) ==
  <<[pluginName |-> pluginName, path |-> args.path, namespace |-> stubNamespace,
     suffix |-> <<"?sentry-module-id=",
                  uuidv4([hook |-> "onResolve", module |-> args.importer], issued)>>,
     sideEffects |-> TRUE, pluginData |-> NoPluginData]>>

\* Variant of onLoadStub: the identifier is the token the resolution drew.
onLoadStubResolvedId(args, issued) ==
  [loader |-> "js", pluginName |-> pluginName, imports |-> <<>>, reexports |-> "",
   resolveDir |-> "", debugId |-> <<args.suffix[2]>>,
   contents |-> "getDebugIdSnippet"]

\* onLoad({ filter: /_sentry-debug-id-injection-stub/, namespace: stubNamespace }):
\* the snippet getDebugIdSnippet(uuidv4()) and the identifier in it.
onLoadStub(args, issued) ==
  [loader |-> "js", pluginName |-> pluginName, imports |-> <<>>, reexports |-> "",
   resolveDir |-> "",
   debugId |-> <<uuidv4([hook |-> "onLoad", module |-> ModuleId(args)], issued)>>,
   contents |-> "getDebugIdSnippet"]

\* The host's own resolution of a path no callback resolved.
DefaultResolve(args) ==
  [pluginName |-> "", path |-> args.path, namespace |-> fileNamespace,
   suffix |-> NoSuffix, sideEffects |-> TRUE, pluginData |-> NoPluginData]

\* The host's own load of a file no callback loaded.
DefaultLoad(args) ==
  [loader |-> "js", pluginName |-> "", imports |-> SourceImports(args.path),
   reexports |-> "", resolveDir |-> WorkDir, debugId |-> <<>>, contents |-> "file"]

\* Whether a resolution called the stub callback (and so uuidv4).
StubFilterMatches(args) == args.path = StubPath

\* The order in which the plugins are set up, and so the order in which the
\* host runs their callbacks: the order the factory is given them in.
PluginOrder == <<releasePluginName, pluginName>>

\* The result of a plugin's onResolve callbacks, in the order the plugin
\* registers them, or <<>> when none of them returns one.
OnResolveOf(plugin, args, issued) ==
  IF plugin = releasePluginName
  THEN IF ReleaseFilterMatches(args) THEN onResolveRelease(args) ELSE <<>>
  ELSE LET first == onResolveEntry(args)
           second == IF StubFilterMatches(args) THEN onResolveStub(args, issued)
                     ELSE <<>>
       IN IF first # <<>> THEN first ELSE second

\* The host runs the onResolve callbacks in registration order; the first
\* result wins.
RunOnResolve(args, issued) ==
  LET results == [i \in 1..Len(PluginOrder) |-> OnResolveOf(PluginOrder[i], args, issued)]
      hits == SelectSeq(results, LAMBDA r : r # <<>>)
  IN IF hits # <<>> THEN hits[1][1] ELSE DefaultResolve(args)

\* Whether RunOnResolve reached the stub callback.
StubCallbackRan(args) ==
  /\ StubFilterMatches(args)
  /\ RunOnResolve(args, {}).namespace = stubNamespace

\* The result of a plugin's onLoad callbacks, or <<>> when no filter and
\* namespace of theirs matches. The release-injection plugin's callback names
\* no namespace and so runs in every namespace.
OnLoadOf(plugin, args, issued) ==
  IF plugin = releasePluginName
  THEN IF ReleaseFilterMatches(args) THEN <<onLoadRelease(args)>> ELSE <<>>
  ELSE IF args.namespace = proxyNamespace THEN <<onLoadProxy(args)>>
  ELSE IF args.namespace = stubNamespace /\ args.path = StubPath
       THEN <<onLoadStub(args, issued)>>
  ELSE <<>>

\* The host runs the onLoad callbacks whose filter and namespace match, in
\* registration order; the first result wins.
RunOnLoad(args, issued) ==
  LET results == [i \in 1..Len(PluginOrder) |-> OnLoadOf(PluginOrder[i], args, issued)]
      hits == SelectSeq(results, LAMBDA r : r # <<>>)
  IN IF hits # <<>> THEN hits[1][1] ELSE DefaultLoad(args)

KnownIds == {k.id : k \in known}
LoadedIds == {l.id : l \in loaded}

RootRequests ==
  initialOptions.entryPoints
    \cup {initialOptions.inject[i] : i \in 1..Len(initialOptions.inject)}

\* The first resolution of an identity decides the pluginData its load gets.
Remember(r) ==
  IF ModuleId(r) \in KnownIds THEN known
  ELSE known \cup {[id |-> ModuleId(r), pluginData |-> r.pluginData]}

\* setup() of the plugins: the release-injection plugin adds its path to the
\* inject list, the upload plugin turns the metafile on, and the plugins
\* register their callbacks.
setup ==
  /\ phase = "init"
  /\ initialOptions' = [initialOptions EXCEPT !.inject = ReleaseInject(@),
                                               !.metafile = TRUE]
  /\ phase' = "scan"
  /\ UNCHANGED <<roots, known, loaded, edges, stubResolutions, uuids, result,
                 uploadCalls, uploadState, onEndState, onEndError, releaseVars>>

\* The host resolves an entry point or an inject path.
HostResolveRoot ==
  /\ phase = "scan"
  /\ \E p \in RootRequests :
       /\ \A r \in roots : r.request # p
       /\ LET args == [path |-> p, kind |-> "entry-point", resolveDir |-> WorkDir,
                       importer |-> NoModule]
              r == RunOnResolve(args, uuids)
          IN /\ roots' = roots \cup {[request |-> p, id |-> ModuleId(r)]}
             /\ known' = Remember(r)
             /\ stubResolutions' = IF StubCallbackRan(args)
                                   THEN Append(stubResolutions, ModuleId(r))
                                   ELSE stubResolutions
             /\ uuids' = IF StubCallbackRan(args) THEN uuids \cup {r.suffix[2]} ELSE uuids
  /\ UNCHANGED <<initialOptions, phase, loaded, edges, result, uploadCalls,
                 uploadState, onEndState, onEndError, releaseVars>>

\* The host loads a module it resolved and has not loaded yet.
HostLoad ==
  /\ phase = "scan"
  /\ \E k \in known :
       /\ k.id \notin LoadedIds
       /\ LET args == [path |-> k.id.path, namespace |-> k.id.namespace,
                       suffix |-> k.id.suffix, pluginData |-> k.pluginData]
              l == RunOnLoad(args, uuids)
          IN /\ loaded' = loaded \cup {[id |-> k.id, imports |-> l.imports,
                                        resolveDir |-> l.resolveDir,
                                        debugId |-> l.debugId,
                                        contents |-> l.contents]}
             /\ uuids' = uuids \cup {l.debugId[i] : i \in 1..Len(l.debugId)}
  /\ UNCHANGED <<initialOptions, phase, roots, known, edges, stubResolutions, result,
                 uploadCalls, uploadState, onEndState, onEndError, releaseVars>>

\* The host resolves one import statement of a loaded module.
HostResolveImport ==
  /\ phase = "scan"
  /\ \E l \in loaded : \E i \in 1..Len(l.imports) :
       /\ \A e \in edges : ~(e.from = l.id /\ e.path = l.imports[i])
       /\ LET args == [path |-> l.imports[i], kind |-> "import-statement",
                       resolveDir |-> l.resolveDir, importer |-> l.id]
              r == RunOnResolve(args, uuids)
          IN /\ edges' = edges \cup {[from |-> l.id, path |-> l.imports[i],
                                      to |-> ModuleId(r)]}
             /\ known' = Remember(r)
             /\ stubResolutions' = IF StubCallbackRan(args)
                                   THEN Append(stubResolutions, ModuleId(r))
                                   ELSE stubResolutions
             /\ uuids' = IF StubCallbackRan(args) THEN uuids \cup {r.suffix[2]} ELSE uuids
  /\ UNCHANGED <<initialOptions, phase, roots, loaded, result, uploadCalls,
                 uploadState, onEndState, onEndError, releaseVars>>

\* The scan is over: every root is resolved, every module loaded, every
\* import resolved.
ScanComplete ==
  /\ \A p \in RootRequests : \E r \in roots : r.request = p
  /\ KnownIds = LoadedIds
  /\ \A l \in loaded : \A i \in 1..Len(l.imports) :
       \E e \in edges : e.from = l.id /\ e.path = l.imports[i]

RECURSIVE ReachFrom(_)
\* The modules reachable from the modules S over the resolved imports.
ReachFrom(S) ==
  LET N == S \cup {e.to : e \in {d \in edges : d.from \in S}}
  IN IF N = S THEN S ELSE ReachFrom(N)

RootOf(p) == (CHOOSE r \in roots : r.request = p).id

\* Inject files are included in every output that has an entry point.
InjectReach ==
  ReachFrom({RootOf(initialOptions.inject[i]) : i \in 1..Len(initialOptions.inject)})

\* The modules the bundle of entry point e needs.
EntryReach(e) == ReachFrom({RootOf(e)}) \cup InjectReach

Owners(m) == {e \in initialOptions.entryPoints : m \in EntryReach(e)}

AllModules == UNION {EntryReach(e) : e \in initialOptions.entryPoints}

\* The output files of the link. Without code splitting every entry point's
\* bundle holds all the modules it needs; with it, a module needed by several
\* entry points goes to a chunk those entries share.
Outputs ==
  IF ~initialOptions.splitting
  THEN {[path |-> [entryPoint |-> e, chunk |-> {e}], modules |-> EntryReach(e)] :
          e \in initialOptions.entryPoints}
  ELSE {[path |-> [entryPoint |-> e, chunk |-> {e}],
         modules |-> {m \in AllModules : Owners(m) = {e}}] :
          e \in initialOptions.entryPoints}
       \cup {[path |-> [entryPoint |-> "", chunk |-> S],
              modules |-> {m \in AllModules : Owners(m) = S}] :
               S \in {T \in SUBSET initialOptions.entryPoints :
                        Cardinality(T) >= 2 /\ \E m \in AllModules : Owners(m) = T}}

RECURSIVE SetToSeq(_)
SetToSeq(S) ==
  IF S = {} THEN <<>> ELSE LET x == CHOOSE y \in S : TRUE IN <<x>> \o SetToSeq(S \ {x})

Reverse(seq) == [i \in 1..Len(seq) |-> seq[Len(seq) + 1 - i]]

\* The orders in which the host may list the outputs in the metafile.
MetafileOrders(outs) ==
  LET paths == SetToSeq({o.path : o \in outs})
      entry(path) == [path |-> path, bytes |-> 1]
  IN {[i \in 1..Len(paths) |-> entry(paths[i])],
      [i \in 1..Len(paths) |-> entry(Reverse(paths)[i])]}

\* The host links the outputs of a scan that found no error.
HostLink ==
  /\ phase = "scan"
  /\ ScanComplete
  /\ \E order \in MetafileOrders(Outputs) :
       result' = [errors |-> FALSE, outputs |-> Outputs,
                  metafile |-> IF initialOptions.metafile
                               THEN <<[outputs |-> order]>> ELSE <<>>]
  /\ phase' = "built"
  /\ UNCHANGED <<initialOptions, roots, known, loaded, edges, stubResolutions,
                 uuids, uploadCalls, uploadState, onEndState, onEndError,
                 releaseVars>>

\* The build ends with errors, which the host reports once the scan is over:
\* no outputs and no metafile.
HostFail ==
  /\ phase = "scan"
  /\ ScanComplete
  /\ result' = [errors |-> TRUE, outputs |-> {}, metafile |-> <<>>]
  /\ phase' = "built"
  /\ UNCHANGED <<initialOptions, roots, known, loaded, edges, stubResolutions,
                 uuids, uploadCalls, uploadState, onEndState, onEndError,
                 releaseVars>>

\* Object.keys of the metafile's outputs: the paths, in the object's order.
ObjectKeys(outs) == [i \in 1..Len(outs) |-> outs[i].path]

\* Variant of BuildArtifacts: only the entry points' outputs are passed on.
BuildArtifactsEntriesOnly(res) ==
  IF res.metafile # <<>>
  THEN SelectSeq(ObjectKeys(res.metafile[1].outputs), LAMBDA k : k.entryPoint # "")
  ELSE <<>>

\* result.metafile ? Object.keys(result.metafile.outputs) : []
BuildArtifacts(res) ==
  IF res.metafile # <<>> THEN ObjectKeys(res.metafile[1].outputs) ELSE <<>>

\* Variant of OnEndAwait: upload() is called and not awaited.
OnEndDetached(state) == "resolved"

\* await upload(buildArtifacts): the onEnd promise while the upload promise
\* is in the given state.
OnEndAwait(state) ==
  CASE state = "pending" -> "awaiting"
    [] state = "resolved" -> "resolved"
    [] state = "rejected" -> "rejected"

\* Errors the upload callback can reject with.
UploadErrors == {"EUPLOAD"}

\* The host calls the onEnd callback: up to the await of upload().
onEnd ==
  /\ phase = "built"
  /\ onEndState = "idle"
  /\ uploadCalls' = Append(uploadCalls, BuildArtifacts(result))
  /\ uploadState' = "pending"
  /\ onEndState' = OnEndAwait("pending")
  /\ UNCHANGED <<initialOptions, phase, roots, known, loaded, edges, stubResolutions,
                 uuids, result, onEndError, releaseVars>>

\* The upload promise resolves; an onEnd that awaits it resolves with it.
uploadResolves ==
  /\ uploadState = "pending"
  /\ uploadState' = "resolved"
  /\ onEndState' = IF onEndState = "awaiting" THEN OnEndAwait("resolved") ELSE onEndState
  /\ UNCHANGED <<initialOptions, phase, roots, known, loaded, edges, stubResolutions,
                 uuids, result, uploadCalls, onEndError, releaseVars>>

\* The upload promise rejects; an onEnd that awaits it rejects with its error.
uploadRejects ==
  /\ uploadState = "pending"
  /\ \E e \in UploadErrors :
       /\ uploadState' = "rejected"
       /\ onEndState' = IF onEndState = "awaiting" THEN OnEndAwait("rejected")
                        ELSE onEndState
       /\ onEndError' = IF onEndState = "awaiting" THEN e ELSE onEndError
  /\ UNCHANGED <<initialOptions, phase, roots, known, loaded, edges, stubResolutions,
                 uuids, result, uploadCalls, releaseVars>>

\* The build options before the plugins' setup.
BuildOptionSets ==
  {o \in [entryPoints : SUBSET EntryCandidates \ {{}}, inject : UserInjects,
          splitting : BOOLEAN, metafile : BOOLEAN] :
     Cardinality(o.entryPoints) + Len(o.inject) <= MaxBuildInputs}

NoResult == [errors |-> FALSE, outputs |-> {}, metafile |-> <<>>]

\* The build before the plugins' setup runs.
BuildIdle ==
  /\ phase = "init"
  /\ roots = {}
  /\ known = {}
  /\ loaded = {}
  /\ edges = {}
  /\ stubResolutions = <<>>
  /\ uuids = {}
  /\ result = NoResult
  /\ uploadCalls = <<>>
  /\ uploadState = "idle"
  /\ onEndState = "idle"
  /\ onEndError = "none"

InitBuild ==
  /\ initialOptions \in BuildOptionSets
  /\ BuildIdle
  /\ options = [cleanArtifacts |-> FALSE, uploadSourceMaps |-> FALSE,
                setCommits |-> "undefined", finalize |-> FALSE, deploy |-> "undefined"]
  /\ telemetry = FALSE
  /\ ReleaseIdle

NextBuild ==
  \/ setup
  \/ HostResolveRoot
  \/ HostLoad
  \/ HostResolveImport
  \/ HostLink
  \/ HostFail
  \/ onEnd
  \/ uploadResolves
  \/ uploadRejects

SpecBuild == InitBuild /\ [][NextBuild]_vars

InitRelease ==
  /\ options \in OptionSets
  /\ telemetry \in BOOLEAN
  /\ ReleaseIdle
  /\ initialOptions = [entryPoints |-> {}, inject |-> <<>>, splitting |-> FALSE,
                       metafile |-> FALSE]
  /\ BuildIdle

SpecRelease == InitRelease /\ [][NextRelease]_vars

(***************************************************************************)
(* Properties of the release pipeline                                      *)
(***************************************************************************)

Range(seq) == {seq[i] : i \in 1..Len(seq)}

Count(seq, x) == Cardinality({i \in 1..Len(seq) : seq[i] = x})

\* The call of step s has settled as a failure.
CallFailed(s) ==
  \E i \in 1..Len(callResults) : cliCalls[i] = CliCall(s) /\ callResults[i] = "failed"

SomeCallFailed == \E i \in 1..Len(callResults) : callResults[i] = "failed"

\* The configuration turns step s off (read off the options, not off the code).
OptionOff(s) ==
  CASE s = "clean" -> options.cleanArtifacts = FALSE
    [] s = "upload" -> options.uploadSourceMaps = FALSE
    [] s = "setCommits" -> options.setCommits = "undefined"
    [] s = "finalize" -> options.finalize = FALSE
    [] s = "deploy" -> options.deploy = "undefined"
    [] OTHER -> FALSE

\* C1: a skippable step whose option is false or absent makes no call to the
\* release-tracking service, returns normally, and the pipeline goes on to
\* the next step.
C1_DisabledStepSkips ==
  \A s \in Steps \ {"create"} :
    OptionOff(s) =>
      /\ CliCall(s) \notin Range(cliCalls)
      /\ stepState[s] \in {"pending", "returned"}
      /\ (stepState[s] = "returned" /\ StepIndex(s) < Len(StepOrder)) =>
           LET n == StepOrder[StepIndex(s) + 1]
           IN stepState[n] # "pending" \/ Runnable(n)

C1_Witness ==
  /\ options.cleanArtifacts = FALSE
  /\ stepState["clean"] = "returned"
  /\ stepState["upload"] = "awaiting"

\* C2: fail-fast. Once an external call of any step has failed, no further
\* external call is issued: no later step's call, and no retry of the failed
\* one.
C2_FailFast == [][SomeCallFailed => cliCalls' = cliCalls]_vars

C2_Witness ==
  /\ CallFailed("setCommits")
  /\ options.finalize = TRUE
  /\ options.deploy = "object"
  /\ stepState["finalize"] = "pending"
  /\ stepState["deploy"] = "pending"

\* C3: if the create call fails, no later step is invoked, exactly one
\* exception is reported and it says "Creating new release failed", and no
\* "Successfully created release." breadcrumb is recorded.
C3_CreateFailureStopsAll ==
  CallFailed("create") =>
    /\ \A s \in Steps \ {"create"} : stepState[s] = "pending"
    /\ cliCalls = <<"releases.new">>
    /\ exceptions = <<"CLI Error: Creating new release failed">>
    /\ "Successfully created release." \notin Range(breadcrumbs)

C3_Witness ==
  /\ CallFailed("create")
  /\ options.cleanArtifacts = TRUE
  /\ options.finalize = TRUE

\* C4: a step whose external call fails reports exactly one exception, with
\* a message no other step uses, and its caller observes the original
\* failure of the call: not the reported exception, not a normal return.
C4_ReportAndRethrow ==
  \A s \in Steps :
    CallFailed(s) =>
      /\ stepState[s] = "threw"
      /\ thrown \in CliErrors
      /\ thrown = cliFailure
      /\ exceptions = <<FailureMessage(s)>>
      /\ \A t \in Steps \ {s} : FailureMessage(t) # FailureMessage(s)

C4_Witness ==
  /\ CallFailed("deploy")
  /\ thrown = "EAUTH"

\* C5: with finalize = false and deploy = undefined, the finalize step and
\* the deploy step each make no call, start no span, and each record exactly
\* one "skipping" breadcrumb.
C5_FinalizeDeploySkipped ==
  (options.finalize = FALSE /\ options.deploy = "undefined") =>
    /\ "releases.finalize" \notin Range(cliCalls)
    /\ "releases.newDeploy" \notin Range(cliCalls)
    /\ "function.plugin.finalize_release" \notin Range(spansStarted)
    /\ "function.plugin.deploy" \notin Range(spansStarted)
    /\ stepState["finalize"] \in {"pending", "returned"}
    /\ stepState["deploy"] \in {"pending", "returned"}
    /\ Count(breadcrumbs, "Skipping release finalization.")
         = IF stepState["finalize"] = "returned" THEN 1 ELSE 0
    /\ Count(breadcrumbs, "Skipping adding deploy info to release.")
         = IF stepState["deploy"] = "returned" THEN 1 ELSE 0

C5_Witness ==
  /\ options.finalize = FALSE
  /\ options.deploy = "undefined"
  /\ telemetry
  /\ stepState["finalize"] = "returned"
  /\ stepState["deploy"] = "returned"

\* The position of a call in the order the steps make their calls in.
CallRank(c) ==
  CASE c = "releases.new" -> 1
    [] c = "releases.execute(files delete --all)" -> 2
    [] c = "releases.uploadSourceMaps" -> 3
    [] c = "releases.setCommits" -> 4
    [] c = "releases.finalize" -> 5
    [] c = "releases.newDeploy" -> 6

\* The call of step s has been issued / has settled successfully.
CallIssued(s) == CliCall(s) \in Range(cliCalls)

CallSucceeded(s) ==
  \E i \in 1..Len(callResults) : cliCalls[i] = CliCall(s) /\ callResults[i] = "ok"

CallSettled(s) == CallSucceeded(s) \/ CallFailed(s)

\* No step function is suspended at its await.
NoStepAwaiting == \A s \in Steps : stepState[s] # "awaiting"

\* Where an event stands in the run (0 when it has not happened).
Pos(kind, s) ==
  IF \E i \in 1..Len(events) : events[i] = Event(kind, s)
  THEN CHOOSE i \in 1..Len(events) : events[i] = Event(kind, s)
  ELSE 0

\* C12: the external calls made are a subsequence of create, clean
\* artifacts, upload sourcemaps, set commits, finalize, deploy, each made at
\* most once, and at most one call is in flight: every earlier call has
\* settled when a call is issued.
C12_CallsInOrderOneInFlight ==
  /\ \A i, j \in 1..Len(cliCalls) :
       i < j => CallRank(cliCalls[i]) < CallRank(cliCalls[j])
  /\ Len(callResults) <= Len(cliCalls)
  /\ Len(cliCalls) <= Len(callResults) + 1

C12_Witness ==
  /\ Len(cliCalls) = 6
  /\ Len(callResults) = 5
  /\ stepState["deploy"] = "awaiting"

\* C13: a step starts a span only when it is not skipped and then together
\* with its call, and finishes it when the call settles, as a success or as
\* a failure; once no call is pending every started span has been finished
\* exactly once, and a skipped step has no span.
C13_SpanDiscipline ==
  /\ \A s \in Steps :
       /\ Count(spansStarted, SpanOp(s)) = IF telemetry /\ CallIssued(s) THEN 1 ELSE 0
       /\ Count(spansFinished, SpanOp(s)) = IF telemetry /\ CallSettled(s) THEN 1 ELSE 0
       /\ OptionOff(s) => SpanOp(s) \notin Range(spansStarted)
       /\ \A r \in Steps \ {s} : SpanOp(r) # SpanOp(s)
       /\ (telemetry /\ CallIssued(s)) =>
            0 < Pos("span.start", s) /\ Pos("span.start", s) < Pos("call", s)
       /\ (telemetry /\ CallSettled(s)) => Pos("call", s) < Pos("span.finish", s)
       /\ Count(events, Event("span.start", s)) = Count(spansStarted, SpanOp(s))
       /\ Count(events, Event("span.finish", s)) = Count(spansFinished, SpanOp(s))
  /\ NoStepAwaiting => spansFinished = spansStarted

C13_Witness ==
  /\ telemetry
  /\ CallFailed("upload")
  /\ options.cleanArtifacts = FALSE
  /\ spansFinished = <<"function.plugin.create_release",
                       "function.plugin.upload_sourcemaps">>

\* The text of the breadcrumb a step leaves after a success.
SuccessText(s) ==
  CASE s = "create" -> "Successfully created release."
    [] s = "clean" -> "Successfully cleaned previous artifacts."
    [] s = "upload" -> "Successfully uploaded source maps."
    [] s = "setCommits" -> "Successfully set commits."
    [] s = "finalize" -> "Successfully finalized release."
    [] s = "deploy" -> "Successfully added deploy."

\* C18: the breadcrumb trail reflects the steps' outcomes. A step's
\* "Successfully ..." breadcrumb is recorded only after its call succeeded
\* and its span was finished, never for a skipped or failed step; set commits
\* records no breadcrumb, and skipping clean artifacts or upload sourcemaps
\* records none.
C18_BreadcrumbsReflectOutcomes ==
  /\ \A s \in Steps \ {"setCommits"} :
       /\ Count(breadcrumbs, SuccessText(s)) = IF CallSucceeded(s) THEN 1 ELSE 0
       /\ Count(events, Event("breadcrumb.success", s))
            = Count(breadcrumbs, SuccessText(s))
       /\ CallSucceeded(s) =>
            /\ Pos("call.ok", s) < Pos("breadcrumb.success", s)
            /\ telemetry => /\ SpanOp(s) \in Range(spansFinished)
                            /\ Pos("span.finish", s) < Pos("breadcrumb.success", s)
  /\ "Successfully set commits." \notin Range(breadcrumbs)
  /\ "Skipping setting commits to release." \notin Range(breadcrumbs)
  /\ "Skipping artifact cleanup." \notin Range(breadcrumbs)
  /\ "Skipping source maps upload." \notin Range(breadcrumbs)
  /\ \A k \in {"breadcrumb.success", "breadcrumb.skip"} :
       Pos(k, "setCommits") = 0
  /\ Pos("breadcrumb.skip", "clean") = 0 /\ Pos("breadcrumb.skip", "upload") = 0

C18_Witness ==
  /\ telemetry
  /\ CallSucceeded("setCommits")
  /\ CallFailed("finalize")
  /\ options.cleanArtifacts = FALSE
  /\ options.uploadSourceMaps = TRUE
  /\ breadcrumbs = <<"Successfully created release.",
                     "Successfully uploaded source maps.">>

\* A run has ended: every step returned, or one threw.
RunEnded ==
  \/ \A s \in Steps : stepState[s] = "returned"
  \/ \E s \in Steps : stepState[s] = "threw"

\* C19: a run reports at most one exception to the monitoring hub, and it
\* reports one exactly when a call has failed; a run in which every step
\* that is not skipped succeeds reports none.
C19_AtMostOneException ==
  /\ Len(exceptions) <= 1
  /\ Len(exceptions) = 1 <=> SomeCallFailed
  /\ Len(exceptions) = Cardinality({i \in 1..Len(events) :
                                      events[i].kind = "captureException"})
  /\ (\A s \in Steps : stepState[s] = "returned") => exceptions = <<>>
  /\ (RunEnded /\ exceptions # <<>>) => thrown # "none"

C19_Witness ==
  /\ RunEnded
  /\ Len(exceptions) = 1
  /\ CallSucceeded("create")
  /\ CallFailed("setCommits")

(***************************************************************************)
(* Properties of the esbuild build                                         *)
(***************************************************************************)

\* The build was linked without errors.
Linked == phase = "built" /\ ~result.errors

\* The debug identifiers embedded in output o: one per stub module bundled
\* into it.
DebugIdsIn(o) ==
  UNION {{l.debugId[i] : i \in 1..Len(l.debugId)} :
           l \in {m \in loaded : m.id \in o.modules}}

\* The stub modules bundled into output o (one debug-id snippet each).
StubsIn(o) == {m \in o.modules : m.namespace = stubNamespace}

\* C6: every output artifact of a build carries exactly one debug identifier,
\* also an output that is not an entry output (a chunk shared by entries).
C6_OneDebugIdPerOutput ==
  Linked => \A o \in result.outputs :
              Cardinality(StubsIn(o)) = 1 /\ Cardinality(DebugIdsIn(o)) = 1

\* C7: the number of distinct debug identifiers embedded in the outputs of a
\* build equals its number of entry points.
C7_DistinctIdsEqualEntries ==
  Linked => Cardinality(UNION {DebugIdsIn(o) : o \in result.outputs})
              = Cardinality(initialOptions.entryPoints)

\* C8: every resolution of the stub path returns an identity (path,
\* namespace, suffix) no other resolution of the build returned, so no stub
\* module has two importers: two entry points never share a stub instance,
\* also when they import the same source module.
C8_StubResolutionsDistinct ==
  /\ \A i, j \in 1..Len(stubResolutions) :
       i # j => stubResolutions[i] # stubResolutions[j]
  /\ \A e, f \in edges :
       (e.to.namespace = stubNamespace /\ e.to = f.to) => e.from = f.from
  /\ \A e \in edges : e.path = StubPath => e.to \in Range(stubResolutions)

C8_Witness ==
  /\ Linked
  /\ initialOptions.entryPoints = {"a.js", "b.js"}
  /\ Len(stubResolutions) >= 2
  /\ \E o1, o2 \in result.outputs :
       /\ o1 # o2
       /\ [path |-> "a.js", namespace |-> fileNamespace, suffix |-> NoSuffix]
            \in o1.modules \cap o2.modules

\* C9: the build-end hook calls the upload callback exactly once, with the
\* output paths of the metafile in the metafile's order, or with the empty
\* sequence when there is no metafile; a missing metafile does not make the
\* hook fail.
C9_UploadOnceWithManifestPaths ==
  /\ onEndState = "idle" => uploadCalls = <<>>
  /\ onEndState # "idle" =>
       /\ Len(uploadCalls) = 1
       /\ uploadCalls[1] =
            IF result.metafile = <<>> THEN <<>>
            ELSE [i \in 1..Len(result.metafile[1].outputs) |->
                    result.metafile[1].outputs[i].path]
       /\ (result.metafile = <<>> /\ onEndState = "rejected") =>
            uploadState = "rejected"

C9_Witness ==
  /\ onEndState = "resolved"
  /\ result.metafile # <<>>
  /\ Len(uploadCalls[1]) = 3
  /\ uploadCalls[1][1].entryPoint = ""

\* C10: the build-end hook does not complete before the upload callback has,
\* and a failure of the upload callback is the failure of the hook: the hook
\* never completes successfully after a failed upload.
C10_UploadFailurePropagates ==
  /\ onEndState \in {"resolved", "rejected"} => uploadState \in {"resolved", "rejected"}
  /\ onEndState = "resolved" => uploadState = "resolved"
  /\ uploadState = "rejected" => onEndState = "rejected" /\ onEndError \in UploadErrors

C10_Witness ==
  /\ uploadState = "rejected"
  /\ onEndState = "rejected"
  /\ uploadCalls # <<>>


(***************************************************************************)
(* Evaluation of a linked bundle                                           *)
(*                                                                         *)
(* A module's imports are evaluated in source order before the module's    *)
(* own code, each module once; the inject files of a bundle are evaluated  *)
(* before its entry point.                                                 *)
(***************************************************************************)

\* The module an import statement of module m was resolved to.
Target(m, path) == (CHOOSE e \in edges : e.from = m /\ e.path = path).to

ImportsOf(m) == (CHOOSE l \in loaded : l.id = m).imports

RECURSIVE EvaluateModule(_, _, _)
RECURSIVE EvaluateImports(_, _, _, _)

\* The modules evaluated once the imports i.. of m are: done are the modules
\* evaluated before, pending the modules whose evaluation has begun.
EvaluateImports(m, i, done, pending) ==
  IF i > Len(ImportsOf(m)) THEN done
  ELSE EvaluateImports(m, i + 1,
                       EvaluateModule(Target(m, ImportsOf(m)[i]), done, pending),
                       pending)

EvaluateModule(m, done, pending) ==
  IF m \in Range(done) \/ m \in pending THEN done
  ELSE Append(EvaluateImports(m, 1, done, pending \cup {m}), m)

RECURSIVE EvaluateInjects(_)
\* The modules evaluated by the first n inject files.
EvaluateInjects(n) ==
  IF n = 0 THEN <<>>
  ELSE EvaluateModule(RootOf(initialOptions.inject[n]), EvaluateInjects(n - 1), {})

\* The order in which the bundle of entry point e evaluates its modules.
EvaluationOrder(e) ==
  EvaluateModule(RootOf(e), EvaluateInjects(Len(initialOptions.inject)), {})

\* The place of module m in an evaluation order, 0 when it is not evaluated.
EvalIndex(order, m) ==
  IF m \in Range(order) THEN CHOOSE i \in 1..Len(order) : order[i] = m ELSE 0

\* C11: in a linked build every entry point resolves to a proxy module whose
\* imports are the stub and then the entry's original module, so the bundle
\* of the entry evaluates the entry's stub before the entry's original
\* module.
C11_StubBeforeOriginal ==
  Linked =>
    \A e \in initialOptions.entryPoints :
      LET proxy == RootOf(e)
          order == EvaluationOrder(e)
          stub == Target(proxy, StubPath)
          original == Target(proxy, e)
      IN /\ proxy.namespace = proxyNamespace
         /\ stub.namespace = stubNamespace
         /\ original = [path |-> e, namespace |-> fileNamespace, suffix |-> NoSuffix]
         /\ EvalIndex(order, stub) > 0
         /\ EvalIndex(order, stub) < EvalIndex(order, original)

\* Two entry points, one importing the other's original module, are linked
\* and each bundle evaluates its stub and then its original module.
C11_Witness ==
  /\ Linked
  /\ initialOptions.entryPoints = {"a.js", "b.js"}
  /\ \A e \in initialOptions.entryPoints :
       LET order == EvaluationOrder(e)
       IN /\ EvalIndex(order, Target(RootOf(e), StubPath)) = 2
          /\ EvalIndex(order, Target(RootOf(e), e)) > 2

\* The proxy modules the build knows.
ProxyModules == {k \in KnownIds : k.namespace = proxyNamespace}

\* The resolutions of the stub path that module m asked for.
StubResolutionsBy(m) ==
  {i \in 1..Len(stubResolutions) : stubResolutions[i].suffix[2].site.module = m}

\* C17: no import is ever resolved to a proxy module, so a proxy module's
\* import of its original path is the original file and proxies do not
\* chain; a declared entry point never has more than one proxy module or
\* more than one stub resolution, and once the scan is over it has exactly
\* one of each.
C17_NoProxyChains ==
  /\ \A e \in edges : e.to.namespace # proxyNamespace
  /\ \A e \in edges :
       (e.from.namespace = proxyNamespace /\ e.path = e.from.path)
         => e.to = [path |-> e.path, namespace |-> fileNamespace, suffix |-> NoSuffix]
  /\ \A p \in initialOptions.entryPoints :
       LET proxies == {k \in ProxyModules : k.path = p}
           stubs == UNION {StubResolutionsBy(k) : k \in proxies}
       IN /\ Cardinality(proxies) <= 1
          /\ Cardinality(stubs) <= 1
          /\ (phase = "scan" /\ ScanComplete) =>
               Cardinality(proxies) = 1 /\ Cardinality(stubs) = 1

\* The scan of a build of two entry points is over: both proxies were loaded
\* and their imports of the original paths resolved.
C17_Witness ==
  /\ phase = "scan"
  /\ ScanComplete
  /\ Cardinality(initialOptions.entryPoints) = 2
  /\ \A p \in initialOptions.entryPoints :
       \E e \in edges : e.from = RootOf(p) /\ e.path = p /\ e.to.namespace = fileNamespace
  /\ Len(stubResolutions) = 2

\* The stub modules the host has loaded.
LoadedStubs == {l \in loaded : l.id.namespace = stubNamespace}

\* The arguments the host loads module id with.
LoadArgs(id) ==
  [path |-> id.path, namespace |-> id.namespace, suffix |-> id.suffix,
   pluginData |-> NoPluginData]

\* C15: whatever order the host ran the resolve and load callbacks in, every
\* loaded stub module carries one identifier, drawn by its load and by no
\* resolution, no two loaded stub modules carry the same identifier, a stub
\* that is resolved and not loaded has drawn none, and loading a loaded stub
\* path once more would return an identifier no load returned before.
C15_IdentifierFreshPerLoad ==
  /\ \A l \in LoadedStubs :
       /\ Len(l.debugId) = 1
       /\ l.debugId[1].site.hook = "onLoad"
       /\ \A i \in 1..Len(stubResolutions) : stubResolutions[i].suffix[2] # l.debugId[1]
       /\ onLoadStub(LoadArgs(l.id), uuids).debugId[1] \notin uuids
  /\ \A l1, l2 \in LoadedStubs : l1.id # l2.id => l1.debugId # l2.debugId
  /\ {u \in uuids : u.site.hook = "onLoad"} = {l.debugId[1] : l \in LoadedStubs}
  /\ Cardinality({u \in uuids : u.site.hook = "onLoad"}) = Cardinality(LoadedStubs)

\* Two stub modules are loaded with two identifiers, and a second load of
\* one of them would return a third.
C15_Witness ==
  /\ Cardinality(LoadedStubs) = 2
  /\ Len(stubResolutions) = 2
  /\ \E l1, l2 \in LoadedStubs : l1.debugId # l2.debugId
  /\ \E l \in LoadedStubs : onLoadStub(LoadArgs(l.id), uuids).debugId # l.debugId

\* The kinds of resolution the host announces to onResolve callbacks.
ResolveKinds == {"entry-point", "import-statement", "require-call", "dynamic-import"}

\* The identity of the release injection module.
ReleaseModule ==
  [path |-> virtualReleaseInjectionFilePath, namespace |-> fileNamespace,
   suffix |-> NoSuffix]

\* The arguments of a resolution of path p of the given kind by importer m.
ResolveArgs(p, kind, m) ==
  [path |-> p, kind |-> kind, resolveDir |-> WorkDir, importer |-> m]

\* C16: once setup has run the inject list holds the release stub path
\* exactly once, after the user's own inject files, however many entry
\* points there are; the path resolves to the same module (the requested
\* path, default namespace, no suffix) for the host's resolution and for a
\* resolution of any kind by any module; and every load of it, the host's
\* and one more, returns the injection code and nothing else.
C16_ReleaseInjectionShared ==
  /\ phase = "init" => Count(initialOptions.inject, virtualReleaseInjectionFilePath) = 0
  /\ phase # "init" =>
       /\ Count(initialOptions.inject, virtualReleaseInjectionFilePath) = 1
       /\ initialOptions.inject[Len(initialOptions.inject)] = virtualReleaseInjectionFilePath
       /\ SubSeq(initialOptions.inject, 1, Len(initialOptions.inject) - 1) \in UserInjects
  /\ \A r \in roots : r.request = virtualReleaseInjectionFilePath => r.id = ReleaseModule
  /\ \A kind \in ResolveKinds : \A m \in KnownIds \cup {NoModule} :
       ModuleId(RunOnResolve(ResolveArgs(virtualReleaseInjectionFilePath, kind, m), uuids))
         = ReleaseModule
  /\ \A l \in loaded :
       l.id.path = virtualReleaseInjectionFilePath =>
         /\ l.id = ReleaseModule
         /\ l.contents = injectionCode
         /\ l.imports = <<>>
         /\ l.debugId = <<>>
         /\ RunOnLoad(LoadArgs(l.id), uuids).contents = injectionCode

\* A build of two entry points is linked without code splitting: the one
\* release injection module was loaded and is part of both bundles.
C16_Witness ==
  /\ Linked
  /\ Cardinality(initialOptions.entryPoints) = 2
  /\ Count(initialOptions.inject, virtualReleaseInjectionFilePath) = 1
  /\ \E l \in loaded : l.id = ReleaseModule /\ l.contents = injectionCode
  /\ Cardinality(result.outputs) = 2
  /\ \A o \in result.outputs : ReleaseModule \in o.modules

\* Every path the host resolved to a proxy module is a declared entry point.
ProxiedRootsAreEntries ==
  \A r \in roots : r.id.namespace = proxyNamespace => r.request \in initialOptions.entryPoints

\* Every import the host resolved, other than the reserved stub path, got the
\* host's own resolution, and the debug-id plugin returns nothing for a
\* resolution of a kind other than entry-point of a project file.
ImportsUntouched ==
  /\ \A e \in edges :
       e.path # StubPath => e.to = ModuleId(DefaultResolve(ResolveArgs(e.path, "import-statement", e.from)))
  /\ \A kind \in ResolveKinds \ {"entry-point"} : \A p \in EntryCandidates \cup {"lib.js", "shim.js"} :
       /\ onResolveEntry(ResolveArgs(p, kind, NoModule)) = <<>>
       /\ RunOnResolve(ResolveArgs(p, kind, NoModule), uuids)
            = DefaultResolve(ResolveArgs(p, kind, NoModule))

\* The release stub path is never resolved to a proxy module, by the host's
\* resolution of the inject list or by a resolution of any other kind.
ReleasePathNeverProxied ==
  /\ \A r \in roots :
       r.request = virtualReleaseInjectionFilePath => r.id.namespace # proxyNamespace
  /\ \A kind \in ResolveKinds :
       RunOnResolve(ResolveArgs(virtualReleaseInjectionFilePath, kind, NoModule), uuids).namespace
         # proxyNamespace

\* C14: only resolutions of declared entry points are redirected to a proxy
\* module: every root resolved to a proxy is a declared entry point, imports
\* other than the stub path are left to the host, and the release stub path
\* of the inject list is never resolved to a proxy.
C14_OnlyDeclaredEntriesProxied ==
  /\ ProxiedRootsAreEntries
  /\ ImportsUntouched
  /\ ReleasePathNeverProxied

====
